---- MODULE Spec2Model ----
(***************************************************************************)
(* Model of the text-to-structured-notes pipeline of the Summarizer        *)
(* backend: TextNotesProcessor (backend/app/processor.py) and               *)
(* keyword_summarize (backend/app/summarizer_logic.py).                     *)
(*                                                                         *)
(* Three specifications share the module:                                  *)
(*   Spec     the batch driver process_all_segments, with the single        *)
(*            extraction generate_structured_notes and the aggregation      *)
(*   SpecSeg  the segmenter segment_by_topic                                *)
(*   SpecKw   the keyword query keyword_summarize                           *)
(*                                                                         *)
(* Times are whole seconds.  Python strings are TLA+ strings; a JSON value  *)
(* is a record [k, s, l]: its kind, its text (kind "str") and its items     *)
(* (kind "list").                                                          *)
(***************************************************************************)
EXTENDS Integers, Sequences, FiniteSets, TLC

(***************************************************************************)
(* Python string primitives                                                *)
(***************************************************************************)

\* sub in s
Contains(sub, s) ==
    \E p \in 1..(Len(s) - Len(sub) + 1) : SubSeq(s, p, p + Len(sub) - 1) = sub

UpperLetters == "ABCDEFGHIJKLMNOPQRSTUVWXYZ"

LowerLetters == "abcdefghijklmnopqrstuvwxyz"

\* the lower-case letter of each upper-case letter
LowerOf ==
    [c \in {SubSeq(UpperLetters, p, p) : p \in 1..Len(UpperLetters)} |->
        LET p == CHOOSE q \in 1..Len(UpperLetters) : SubSeq(UpperLetters, q, q) = c
        IN  SubSeq(LowerLetters, p, p)]

LowerChar(c) == IF c \in DOMAIN LowerOf THEN LowerOf[c] ELSE c

RECURSIVE Lower(_)
\* s.lower()
Lower(s) ==
    IF s = "" THEN ""
    ELSE LowerChar(SubSeq(s, 1, 1)) \o Lower(SubSeq(s, 2, Len(s)))

\* s[:k]
Prefix(s, k) == SubSeq(s, 1, IF Len(s) < k THEN Len(s) ELSE k)

\* list(s): the one-character strings of s, as list.extend(s) and set.update(s) see it
Chars(s) == [p \in 1..Len(s) |-> SubSeq(s, p, p)]

\* The characters the model's strings use, in code-point order
CodePoints == " '(),-.0123456789:ABCDEFGHIJKLMNOPQRSTUVWXYZ_abcdefghijklmnopqrstuvwxyz{}"

\* ord(c)
Ord(c) == CHOOSE p \in 1..Len(CodePoints) : SubSeq(CodePoints, p, p) = c

RECURSIVE StrLess(_, _)
\* a < b on str: lexicographic by code point
StrLess(a, b) ==
    IF b = "" THEN FALSE
    ELSE IF a = "" THEN TRUE
    ELSE LET ca == SubSeq(a, 1, 1)
             cb == SubSeq(b, 1, 1)
         IN  IF ca = cb THEN StrLess(SubSeq(a, 2, Len(a)), SubSeq(b, 2, Len(b)))
             ELSE Ord(ca) < Ord(cb)

RECURSIVE Sorted(_)
\* sorted(list(S)) for a set S of str
Sorted(S) ==
    IF S = {} THEN <<>>
    ELSE LET m == CHOOSE x \in S : \A y \in S \ {x} : StrLess(x, y)
         IN  <<m>> \o Sorted(S \ {m})

\* set(l) for a list l
ToSet(l) == {l[p] : p \in 1..Len(l)}

(***************************************************************************)
(* JSON values, as json.loads returns them and the records carry them      *)
(***************************************************************************)

JStr(s) == [k |-> "str", s |-> s, l |-> <<>>]

JList(l) == [k |-> "list", s |-> "", l |-> l]

\* None (JSON null)
JNone == [k |-> "none", s |-> "", l |-> <<>>]

\* the key is not in the dict
JAbsent == [k |-> "absent", s |-> "", l |-> <<>>]

\* dict.get(key, default) on one key's value
Get(v, default) == IF v.k = "absent" THEN default ELSE v

NoteKeys == {"topic", "summary", "key_points", "action_items", "questions", "keywords"}

\* the JSON object {}
EmptyObject == [key \in NoteKeys |-> JAbsent]

\* A parsed document: a JSON object (a dict) or a JSON array (a list); "invalid" is
\* text that is no JSON.
Doc(t, f) == [t |-> t, f |-> f]

DocA ==
    Doc("object", [topic |-> JStr("Intro"), summary |-> JStr("First part."),
                   key_points |-> JList(<<"p1">>),
                   action_items |-> JList(<<"send", "book">>),
                   questions |-> JList(<<"why">>),
                   keywords |-> JList(<<"nlp", "ai">>)])

DocB ==
    Doc("object", [topic |-> JStr("Plan"), summary |-> JStr("Second part."),
                   key_points |-> JList(<<"p2">>),
                   action_items |-> JList(<<"book">>),
                   questions |-> JList(<<>>),
                   keywords |-> JList(<<"ai", "Zoo">>)])

\* {"action_items": null, ...}
DocNullItems == Doc("object", [DocA.f EXCEPT !["action_items"] = JNone])

\* {"topic": null, ...}
DocNullTopic == Doc("object", [DocB.f EXCEPT !["topic"] = JNone])

DocPool ==
    {DocA, DocB, Doc("object", EmptyObject), DocNullItems, DocNullTopic,
     Doc("array", EmptyObject), Doc("invalid", EmptyObject)}

\* The text of a model response: the document it holds and the markdown fence around
\* it: "none", "json" (```json\n...\n```), "bare" (```\n...\n```) or "other"
\* (```python\n...\n```).
TextPool ==
    {[fence |-> "none", doc |-> d] : d \in DocPool}
    \cup {[fence |-> f, doc |-> DocA] : f \in {"json", "other"}}

\* result_text.startswith("```") and the re.sub of ^```json?\n and ```$ (MULTILINE)
StripFence(text) ==
    IF text.fence \in {"json", "bare"} THEN [text EXCEPT !.fence = "none"] ELSE text

\* json.loads: the value, or JSONDecodeError
JsonLoads(text) ==
    IF text.fence # "none" \/ text.doc.t = "invalid"
    THEN [ok |-> FALSE, doc |-> Doc("invalid", EmptyObject)]
    ELSE [ok |-> TRUE, doc |-> text.doc]

(***************************************************************************)
(* Failures of the generation call: what the exception is and str(e)       *)
(***************************************************************************)

AuthError ==
    [kind |-> "auth",
     msg |-> "Error code: 401 - {'code': 'invalid_api_key'}"]

RateLimitError ==
    [kind |-> "rate_limit",
     msg |-> "Error code: 429 - {'code': 'too_many_requests'}"]

\* a throttling signal with no status code in its text
ThrottleError == [kind |-> "rate_limit", msg |-> "Rate limit reached for model"]

TimeoutError == [kind |-> "timeout", msg |-> "Request timed out."]

\* HTTP 400 of the JSON response format: the model wrote no valid JSON
JsonModeError ==
    [kind |-> "other",
     msg |-> "Error code: 400 - {'message': 'Failed to generate JSON'}"]

ErrorPool ==
    {AuthError, RateLimitError, ThrottleError, TimeoutError, JsonModeError}

\* AttributeError of data.get on a value that is no dict
NotADictError == [kind |-> "other", msg |-> "'list' object has no attribute 'get'"]

\* AttributeError of message.content.strip() on a response without content
NoContentError == [kind |-> "other", msg |-> "'NoneType' object has no attribute 'strip'"]

\* TypeError of list.extend / set.update on a value that is no iterable
NotIterableError == [kind |-> "other", msg |-> "'NoneType' object is not iterable"]

NoError == [kind |-> "none", msg |-> ""]

(***************************************************************************)
(* State                                                                   *)
(***************************************************************************)

VARIABLES
    \* process_all_segments: arguments and configuration
    segments,             \* the input segments, a list of str
    delay_seconds,        \* the delay_seconds argument
    use_pegasus,          \* self.use_pegasus
    \* process_all_segments: locals
    pc,                   \* "for", "while", "assemble", "returned", "raised"
    i,                    \* the 1-based index of the for loop
    retry_count,
    success,
    structured_segments,
    final_output,         \* the returned dict (NoOutput until it returns)
    raised,               \* the exception that left process_all_segments
    \* process_all_segments: what an observer of the run sees
    attempts,             \* calls of generate_structured_notes so far
    tries,                \* the same, per segment
    last,                 \* the last attempt: segment, response, error, sleep
    dropped,              \* the segments left with success = False
    auth_failures,        \* attempts that failed with a credential error
    \* segment_by_topic
    sentences,            \* word counts of the input sentences
    similarity,           \* per loop pass, the cosine similarity computed, in percent (<<>>: none)
    similarity_threshold,
    max_segment_length,
    min_segment_length,
    seg_pc,               \* "loop", "returned"
    seg_i,                \* the index of the for loop, 0-based as in the code
    seg_segments,         \* the emitted segments, each a list of sentence indices
    current_segment,
    current_word_count,
    closes,               \* why each emitted segment was closed, and the running count then
    \* keyword_summarize
    kw_pc,                \* "called", "validated", "client", "returned"
    kw_text,
    kw_keyword,
    kw_api_key,
    kw_client,            \* what initialize_groq_client returned: "client" or "None"
    kw_outcome,           \* what the generation call did
    kw_result,
    kw_raised,
    clients_built,        \* Groq(...) constructions
    generation_calls,     \* chat.completions.create calls
    \* process_text and generate_mindmap_from_notes
    pt_pc,                \* "batch", "from_notes", "returned", "raised"
    output_json_path,     \* None or a path
    generate_mindmap,     \* the argument of process_text
    pt_result,            \* what process_text returned
    pt_raised,            \* the exception that left the call
    notes_file,           \* the file at output_json_path
    mindmap               \* the mindmap step: its calls, what it returned and wrote

batch_vars ==
    <<segments, delay_seconds, use_pegasus, pc, i, retry_count, success,
      structured_segments, final_output, raised, attempts, tries, last, dropped,
      auth_failures>>

seg_vars ==
    <<sentences, similarity, similarity_threshold, max_segment_length,
      min_segment_length, seg_pc, seg_i, seg_segments, current_segment,
      current_word_count, closes>>

kw_vars ==
    <<kw_pc, kw_text, kw_keyword, kw_api_key, kw_client, kw_outcome, kw_result,
      kw_raised, clients_built, generation_calls>>

proc_vars ==
    <<pt_pc, output_json_path, generate_mindmap, pt_result, pt_raised, notes_file, mindmap>>

vars == <<batch_vars, seg_vars, kw_vars, proc_vars>>

(***************************************************************************)
(* generate_structured_notes                                               *)
(***************************************************************************)

\* What one call of the generation capability does: it raises, or it returns a
\* response whose content is a text, or a response with no content (None).
Raises(e) == [t |-> "raise", err |-> e, text |-> [fence |-> "none", doc |-> Doc("invalid", EmptyObject)]]

Responds(text) == [t |-> "text", err |-> NoError, text |-> text]

NoContent == [t |-> "nocontent", err |-> NoError, text |-> [fence |-> "none", doc |-> Doc("invalid", EmptyObject)]]

GenOutcomes ==
    {Raises(e) : e \in ErrorPool} \cup {Responds(x) : x \in TextPool} \cup {NoContent}

\* What generate_pegasus_summary can return: "" when Pegasus is off or fails
PegasusOutputs(enabled) == IF enabled THEN {"", "Pegasus says."} ELSE {""}

\* The pegasus_summary of a record: "" when Pegasus is off, and else the text
\* generate_pegasus_summary gave for the segment, which nothing in the pipeline
\* reads; one text stands for every such text
SegmentPegasusOutputs(enabled) == IF enabled THEN {"Pegasus says."} ELSE {""}

\* the [:200] of the fallback summary
SummaryPrefixLen == 200

Returned(rec) == [ok |-> TRUE, rec |-> rec, err |-> NoError]

\* the dict built from the parsed data, every key read with data.get(key, default)
StructuredData(data, pegasus_summary) ==
    [topic |-> Get(data["topic"], JStr("Unknown Topic")),
     summary |-> Get(data["summary"], JStr("")),
     pegasus_summary |-> JStr(pegasus_summary),
     key_points |-> Get(data["key_points"], JList(<<>>)),
     action_items |-> Get(data["action_items"], JList(<<>>)),
     questions |-> Get(data["questions"], JList(<<>>)),
     keywords |-> Get(data["keywords"], JList(<<>>)),
     segment_id |-> 0]

\* the dict of the except json.JSONDecodeError branch
ParseFallback(segment) ==
    [topic |-> JStr("Error parsing segment"),
     summary |-> JStr(Prefix(segment, SummaryPrefixLen) \o "..."),
     pegasus_summary |-> JStr(""),
     key_points |-> JList(<<>>),
     action_items |-> JList(<<>>),
     questions |-> JList(<<>>),
     keywords |-> JList(<<>>),
     segment_id |-> 0]

Threw(e) == [ok |-> FALSE, rec |-> ParseFallback(""), err |-> e]

\* generate_structured_notes(segment), given what the generation call does and what
\* Pegasus returns: the dict it returns, or the exception it re-raises
GenerateStructuredNotes(segment, outcome, pegasus_summary) ==
    IF outcome.t = "raise" THEN Threw(outcome.err)
    ELSE IF outcome.t = "nocontent" THEN Threw(NoContentError)
    ELSE LET parsed == JsonLoads(StripFence(outcome.text))
         IN  IF ~parsed.ok THEN Returned(ParseFallback(segment))
             ELSE IF parsed.doc.t # "object" THEN Threw(NotADictError)
             ELSE Returned(StructuredData(parsed.doc.f, pegasus_summary))

(***************************************************************************)
(* Aggregation: _extract_all_items, _extract_unique_keywords,              *)
(* generate_overall_summary                                                *)
(***************************************************************************)

\* whether list.extend(v) and set.update(v) accept v
Iterable(v) == v.k \in {"list", "str"}

\* what iterating v yields: the items of a list, the characters of a str
Elements(v) == IF v.k = "list" THEN v.l ELSE Chars(v.s)

RECURSIVE ExtractAllItemsPrepending(_, _)
\* _extract_all_items putting each record's items before those collected so far
ExtractAllItemsPrepending(segs, key) ==
    IF segs = <<>> THEN [ok |-> TRUE, items |-> <<>>]
    ELSE LET v == Get(Head(segs)[key], JList(<<>>))
             rest == ExtractAllItemsPrepending(Tail(segs), key)
         IN  IF Iterable(v) /\ rest.ok
             THEN [ok |-> TRUE, items |-> rest.items \o Elements(v)]
             ELSE [ok |-> FALSE, items |-> <<>>]

RECURSIVE ExtractAllItems(_, _)
\* _extract_all_items(segments, key): the flattened list, or the TypeError of extend
ExtractAllItems(segs, key) ==
    IF segs = <<>> THEN [ok |-> TRUE, items |-> <<>>]
    ELSE LET v == Get(Head(segs)[key], JList(<<>>))
             rest == ExtractAllItems(Tail(segs), key)
         IN  IF Iterable(v) /\ rest.ok
             THEN [ok |-> TRUE, items |-> Elements(v) \o rest.items]
             ELSE [ok |-> FALSE, items |-> <<>>]

RECURSIVE KeywordSet(_)
KeywordSet(segs) ==
    IF segs = <<>> THEN {}
    ELSE ToSet(Elements(Get(Head(segs)["keywords"], JList(<<>>)))) \cup KeywordSet(Tail(segs))

\* _extract_unique_keywords without the set and the sort
ExtractKeywordsAsListed(segs) == ExtractAllItems(segs, "keywords")

\* _extract_unique_keywords(segments): the sorted list, or the TypeError of update
ExtractUniqueKeywords(segs) ==
    IF \A p \in 1..Len(segs) : Iterable(Get(segs[p]["keywords"], JList(<<>>)))
    THEN [ok |-> TRUE, items |-> Sorted(KeywordSet(segs))]
    ELSE [ok |-> FALSE, items |-> <<>>]

\* What spaCy's noun extraction can give generate_overall_summary as unique_keywords
DocumentKeywordChoices == {<<>>, <<"talk">>}

\* generate_overall_summary leaving overall_summary empty when Pegasus is off
GenerateOverallSummaryBlank(enabled, pegasus_summary, unique_keywords) ==
    IF ~enabled
    THEN [overall_summary |-> "", document_keywords |-> <<>>]
    ELSE [overall_summary |-> pegasus_summary, document_keywords |-> unique_keywords]

\* generate_overall_summary(segments): overall_summary and document_keywords as
\* process_all_segments reads them with .get
GenerateOverallSummary(enabled, pegasus_summary, unique_keywords) ==
    IF ~enabled
    THEN [overall_summary |-> "Pegasus summarization not enabled", document_keywords |-> <<>>]
    ELSE [overall_summary |-> pegasus_summary, document_keywords |-> unique_keywords]

\* the final_output dict
FinalOutput(segs, overall, enabled) ==
    [total_segments |-> Len(segs),
     pegasus_enabled |-> enabled,
     overall_summary |-> overall.overall_summary,
     document_keywords |-> overall.document_keywords,
     segments |-> segs,
     all_action_items |-> ExtractAllItems(segs, "action_items").items,
     all_questions |-> ExtractAllItems(segs, "questions").items,
     all_keywords |-> ExtractUniqueKeywords(segs).items]

\* final_output before process_all_segments has returned
NoOutput == FinalOutput(<<>>, GenerateOverallSummary(FALSE, "", <<>>), FALSE)

(***************************************************************************)
(* process_all_segments                                                    *)
(***************************************************************************)

max_retries == 3

\* the fixed wait of a rate-limited attempt
RateLimitWait == 10

\* IsFatal looking for another status code
IsFatalWrongCode(error_msg) ==
    Contains("403", error_msg) /\ Contains("invalid_api_key", error_msg)

\* "401" in error_msg and "invalid_api_key" in error_msg
IsFatal(error_msg) == Contains("401", error_msg) /\ Contains("invalid_api_key", error_msg)

\* "429" in error_msg or "rate" in error_msg.lower()
IsRateLimit(error_msg) == Contains("429", error_msg) \/ Contains("rate", Lower(error_msg))

\* wait_time
WaitTime(error_msg, delay) == IF IsRateLimit(error_msg) THEN RateLimitWait ELSE delay * 2

\* what the observer records of one attempt: its ordinal in the run, its segment,
\* what the generation call did, the exception that reached the driver, and the
\* time.sleep calls it made
AttemptRecord(seg, outcome, err, sleeps) ==
    [n |-> attempts + 1, segment |-> seg, outcome |-> outcome, err |-> err,
     sleeps |-> sleeps]

NoAttempt == [n |-> 0, segment |-> 0, outcome |-> NoContent, err |-> NoError, sleeps |-> <<>>]

\* for i, segment in enumerate(segments, 1): the next segment
ForStep ==
    /\ pc = "for"
    /\ i < Len(segments)
    /\ i' = i + 1
    /\ retry_count' = 0
    /\ success' = FALSE
    /\ pc' = "while"
    /\ UNCHANGED <<segments, delay_seconds, use_pegasus, structured_segments,
                   final_output, raised, attempts, tries, last, dropped, auth_failures>>

\* the for loop is exhausted
ForExit ==
    /\ pc = "for"
    /\ i >= Len(segments)
    /\ pc' = "assemble"
    /\ UNCHANGED <<segments, delay_seconds, use_pegasus, i, retry_count, success,
                   structured_segments, final_output, raised, attempts, tries, last,
                   dropped, auth_failures>>

\* AttemptSucceeds numbering the segments from 0
AttemptSucceedsFromZero(outcome, r) ==
    /\ r.ok
    /\ structured_segments' =
          Append(structured_segments, [r.rec EXCEPT !.segment_id = i - 1])
    /\ success' = TRUE
    /\ last' = AttemptRecord(i, outcome, NoError,
                             IF i < Len(segments) THEN <<delay_seconds>> ELSE <<>>)
    /\ UNCHANGED <<pc, retry_count, raised>>

\* the try block ran to its end
AttemptSucceeds(outcome, r) ==
    /\ r.ok
    /\ structured_segments' = Append(structured_segments, [r.rec EXCEPT !.segment_id = i])
    /\ success' = TRUE
    /\ last' = AttemptRecord(i, outcome, NoError,
                             IF i < Len(segments) THEN <<delay_seconds>> ELSE <<>>)
    /\ UNCHANGED <<pc, retry_count, raised>>

\* the except block re-raises
AttemptFatal(outcome, r) ==
    /\ ~r.ok
    /\ IsFatal(r.err.msg)
    /\ pc' = "raised"
    /\ raised' = r.err
    /\ last' = AttemptRecord(i, outcome, r.err, <<>>)
    /\ UNCHANGED <<retry_count, success, structured_segments>>

\* AttemptRetry without retry_count += 1
AttemptRetryNoCount(outcome, r) ==
    /\ ~r.ok
    /\ ~IsFatal(r.err.msg)
    /\ last' = AttemptRecord(i, outcome, r.err, <<WaitTime(r.err.msg, delay_seconds)>>)
    /\ UNCHANGED <<pc, retry_count, success, structured_segments, raised>>

\* the except block waits and counts the retry
AttemptRetry(outcome, r) ==
    /\ ~r.ok
    /\ ~IsFatal(r.err.msg)
    /\ retry_count' = retry_count + 1
    /\ last' = AttemptRecord(i, outcome, r.err, <<WaitTime(r.err.msg, delay_seconds)>>)
    /\ UNCHANGED <<pc, success, structured_segments, raised>>

\* one pass of the while body
Attempt ==
    /\ pc = "while"
    /\ retry_count < max_retries /\ ~success
    /\ \E outcome \in GenOutcomes, pegasus_summary \in SegmentPegasusOutputs(use_pegasus) :
          LET r == GenerateStructuredNotes(segments[i], outcome, pegasus_summary)
          IN  \/ AttemptSucceeds(outcome, r)
              \/ AttemptFatal(outcome, r)
              \/ AttemptRetry(outcome, r)
    /\ attempts' = attempts + 1
    /\ tries' = [tries EXCEPT ![i] = @ + 1]
    /\ auth_failures' = IF last'.err.kind = "auth" THEN auth_failures + 1 ELSE auth_failures
    /\ UNCHANGED <<segments, delay_seconds, use_pegasus, i, final_output, dropped>>

\* the while condition is false; if not success the segment is only reported
WhileExit ==
    /\ pc = "while"
    /\ ~(retry_count < max_retries /\ ~success)
    /\ dropped' = IF success THEN dropped ELSE dropped \cup {i}
    /\ pc' = "for"
    /\ UNCHANGED <<segments, delay_seconds, use_pegasus, i, retry_count, success,
                   structured_segments, final_output, raised, attempts, tries, last,
                   auth_failures>>

\* the overall summary and the final_output dict; a TypeError of the aggregation
\* leaves process_all_segments
Assemble ==
    /\ pc = "assemble"
    /\ \E pegasus_summary \in PegasusOutputs(use_pegasus),
          unique_keywords \in DocumentKeywordChoices :
          LET overall == GenerateOverallSummary(use_pegasus, pegasus_summary,
                                                unique_keywords)
          IN  IF /\ ExtractAllItems(structured_segments, "action_items").ok
                 /\ ExtractAllItems(structured_segments, "questions").ok
                 /\ ExtractUniqueKeywords(structured_segments).ok
              THEN /\ final_output' = FinalOutput(structured_segments, overall, use_pegasus)
                   /\ pc' = "returned"
                   /\ raised' = raised
              ELSE /\ final_output' = final_output
                   /\ pc' = "raised"
                   /\ raised' = NotIterableError
    /\ UNCHANGED <<segments, delay_seconds, use_pegasus, i, retry_count, success,
                   structured_segments, attempts, tries, last, dropped, auth_failures>>

(***************************************************************************)
(* generate_mindmap, generate_mindmap_from_notes                           *)
(***************************************************************************)

\* TypeError of str.join on an item that is no str
JoinTypeError ==
    [kind |-> "other", msg |-> "sequence item 0: expected str instance, NoneType found"]

\* OSError of open(path, 'w')
WriteError == [kind |-> "other", msg |-> "[Errno 13] Permission denied: 'notes.json'"]

\* What the generation call of generate_mindmap does: it raises, or it returns a
\* response with no content, or one whose content is Mermaid code, bare or inside a
\* mermaid fence
MindmapRaises(e) == [t |-> "raise", err |-> e, fence |-> "none", code |-> ""]

MindmapResponds(fence, code) == [t |-> "text", err |-> NoError, fence |-> fence, code |-> code]

MindmapNoContent == [t |-> "nocontent", err |-> NoError, fence |-> "none", code |-> ""]

MindmapOutcomes ==
    {MindmapRaises(e) : e \in {AuthError, TimeoutError}}
    \cup {MindmapResponds(f, "mindmap root((Notes))") : f \in {"none", "mermaid"}}
    \cup {MindmapNoContent}

\* A file: absent, or holding a text
NoFile == [written |-> FALSE, text |-> ""]

FileWith(text) == [written |-> TRUE, text |-> text]

\* what the mindmap step did: the concept it asked about, what the generation call
\* did, what it returned and the artifact it wrote
NoMindmap ==
    [calls |-> 0, concept |-> "", outcome |-> MindmapNoContent, returned |-> <<>>,
     file |-> NoFile]

\* .strip() and the re.sub of ^```mermaid\n? and ```$ (MULTILINE): the code inside
StripMermaidFence(outcome) == outcome.code

\* generate_mindmap(concept, output_file), given what the generation call does and
\* whether output_file can be written: every exception of the try block gives ""
GenerateMindmap(concept, outcome, write_ok) ==
    IF outcome.t = "text" /\ write_ok
    THEN [raised |-> FALSE, err |-> NoError, calls |-> 1, concept |-> concept,
          outcome |-> outcome, returned |-> StripMermaidFence(outcome),
          file |-> FileWith(StripMermaidFence(outcome))]
    ELSE [raised |-> FALSE, err |-> NoError, calls |-> 1, concept |-> concept,
          outcome |-> outcome, returned |-> "", file |-> NoFile]

\* The file at json_file_path: "missing", "undecodable" (no JSON), or JSON that is
\* an "array" or an "object" with its data
NotesFile(state, data) == [state |-> state, data |-> data]

RECURSIVE JoinWith(_, _)
\* sep.join(l)
JoinWith(l, sep) ==
    IF l = <<>> THEN ""
    ELSE IF Len(l) = 1 THEN l[1]
    ELSE l[1] \o sep \o JoinWith(Tail(l), sep)

\* s.get('topic', f"Segment {s.get('segment_id', '')}")
TopicOf(rec) == Get(rec.topic, JStr("Segment " \o ToString(rec.segment_id)))

\* the combined_concept of the records, when every topic is a str
CombinedConcept(segs) ==
    "Session notes covering: "
        \o JoinWith([q \in 1..Len(segs) |-> TopicOf(segs[q]).s], " | ")

\* the result of generate_mindmap_from_notes before generate_mindmap is called
MindmapNotCalled(threw, e) ==
    [raised |-> threw, err |-> e, calls |-> 0, concept |-> "",
     outcome |-> MindmapNoContent, returned |-> "", file |-> NoFile]

\* generate_mindmap_from_notes(json_file_path, output_file)
GenerateMindmapFromNotes(file, outcome, write_ok) ==
    IF file.state \in {"missing", "undecodable"} THEN MindmapNotCalled(FALSE, NoError)
    ELSE IF file.state = "array" THEN MindmapNotCalled(TRUE, NotADictError)
    ELSE IF \E q \in 1..Len(file.data.segments) : TopicOf(file.data.segments[q]).k # "str"
    THEN MindmapNotCalled(TRUE, JoinTypeError)
    ELSE GenerateMindmap(CombinedConcept(file.data.segments), outcome, write_ok)

(***************************************************************************)
(* process_text                                                            *)
(***************************************************************************)

\* what the mindmap variable keeps of a result of the mindmap step
MindmapDone(r) ==
    [calls |-> r.calls, concept |-> r.concept, outcome |-> r.outcome,
     returned |-> IF r.raised THEN <<>> ELSE <<r.returned>>, file |-> r.file]

\* ProcessTextPropagate catching the exception and returning what there is
ProcessTextSwallow ==
    /\ pt_pc = "batch"
    /\ pc = "raised"
    /\ pt_pc' = "returned"
    /\ pt_result' = FinalOutput(structured_segments,
                                GenerateOverallSummary(FALSE, "", <<>>), use_pegasus)
    /\ UNCHANGED <<output_json_path, generate_mindmap, pt_raised, notes_file, mindmap>>

\* an exception of process_all_segments leaves process_text, which has no try
ProcessTextPropagate ==
    /\ pt_pc = "batch"
    /\ pc = "raised"
    /\ pt_pc' = "raised"
    /\ pt_raised' = raised
    /\ UNCHANGED <<output_json_path, generate_mindmap, pt_result, notes_file, mindmap>>

\* process_text after process_all_segments returned final_output: the report is
\* written to output_json_path when there is one, then the mindmap is generated
\* from that file when asked for (its artifact path is output_json_path with
\* '.json' replaced), and final_output is returned
ProcessTextFinish ==
    /\ pt_pc = "batch"
    /\ pc = "returned"
    /\ IF output_json_path.k = "none"
       THEN /\ pt_pc' = "returned"
            /\ pt_result' = final_output
            /\ UNCHANGED <<pt_raised, notes_file, mindmap>>
       ELSE \E write_ok \in BOOLEAN :
               IF ~write_ok
               THEN /\ pt_pc' = "raised"
                    /\ pt_raised' = WriteError
                    /\ UNCHANGED <<pt_result, notes_file, mindmap>>
               ELSE /\ notes_file' = NotesFile("object", final_output)
                    /\ IF ~generate_mindmap
                       THEN /\ pt_pc' = "returned"
                            /\ pt_result' = final_output
                            /\ UNCHANGED <<pt_raised, mindmap>>
                       ELSE \E outcome \in MindmapOutcomes, mindmap_write_ok \in BOOLEAN :
                               LET r == GenerateMindmapFromNotes(notes_file', outcome,
                                                                 mindmap_write_ok)
                               IN  /\ mindmap' = MindmapDone(r)
                                   /\ pt_pc' = IF r.raised THEN "raised" ELSE "returned"
                                   /\ pt_raised' = IF r.raised THEN r.err ELSE pt_raised
                                   /\ pt_result' = IF r.raised THEN pt_result ELSE final_output
    /\ UNCHANGED <<output_json_path, generate_mindmap>>

\* generate_mindmap_from_notes called on a notes file
MindmapFromNotes ==
    /\ pt_pc = "from_notes"
    /\ \E outcome \in MindmapOutcomes, write_ok \in BOOLEAN :
          LET r == GenerateMindmapFromNotes(notes_file, outcome, write_ok)
          IN  /\ mindmap' = MindmapDone(r)
              /\ pt_pc' = IF r.raised THEN "raised" ELSE "returned"
              /\ pt_raised' = IF r.raised THEN r.err ELSE pt_raised
    /\ UNCHANGED <<output_json_path, generate_mindmap, pt_result, notes_file>>

(***************************************************************************)
(* segment_by_topic                                                        *)
(***************************************************************************)

RECURSIVE WordCount(_)
\* len(s.split()): the maximal runs of non-space characters
WordCount(s) ==
    IF s = "" THEN 0
    ELSE IF SubSeq(s, 1, 1) = " " THEN WordCount(SubSeq(s, 2, Len(s)))
    ELSE IF Len(s) = 1 \/ SubSeq(s, 2, 2) = " " THEN 1 + WordCount(SubSeq(s, 2, Len(s)))
    ELSE WordCount(SubSeq(s, 2, Len(s)))

RECURSIVE Join(_)
\* ' '.join(l)
Join(l) ==
    IF l = <<>> THEN ""
    ELSE IF Len(l) = 1 THEN l[1]
    ELSE l[1] \o " " \o Join(Tail(l))

\* what the observer records when a segment is emitted: why, the running word count
\* then, and the sentences (1-based positions) it holds
CloseRecord(why, count, first, lastpos) ==
    [why |-> why, count |-> count, first |-> first, last |-> lastpos]

\* if not sentences: return []; else the first sentence opens the current segment
SegBegin ==
    /\ seg_pc = "called"
    /\ IF sentences = <<>>
       THEN /\ seg_pc' = "returned"
            /\ UNCHANGED <<seg_i, current_segment, current_word_count>>
       ELSE /\ seg_pc' = "loop"
            /\ seg_i' = 1
            /\ current_segment' = <<sentences[1]>>
            /\ current_word_count' = WordCount(sentences[1])
    /\ UNCHANGED <<sentences, similarity, similarity_threshold, max_segment_length,
                   min_segment_length, seg_segments, closes>>

\* TooLong forgetting the sentence to append
TooLongBeforeAppend(sentence_word_count) == current_word_count > max_segment_length

\* current_word_count + sentence_word_count > max_segment_length
TooLong(sentence_word_count) ==
    current_word_count + sentence_word_count > max_segment_length

\* TopicShift without the minimum-length condition
TopicShiftAnyLength(sim) == sim < similarity_threshold

\* similarity < similarity_threshold and current_word_count >= min_segment_length
TopicShift(sim) ==
    sim < similarity_threshold /\ current_word_count >= min_segment_length

\* the forced break: appending would exceed max_segment_length
SegForceBreak(sentence, sentence_word_count) ==
    /\ TooLong(sentence_word_count)
    /\ seg_segments' = Append(seg_segments, Join(current_segment))
    /\ current_segment' = <<sentence>>
    /\ current_word_count' = sentence_word_count
    /\ closes' = Append(closes, CloseRecord("length", current_word_count,
                                            seg_i + 1 - Len(current_segment), seg_i))
    /\ similarity' = Append(similarity, <<>>)

\* the break on low similarity of a segment that is large enough
SegTopicBreak(sentence, sentence_word_count, sim) ==
    /\ ~TooLong(sentence_word_count)
    /\ TopicShift(sim)
    /\ seg_segments' = Append(seg_segments, Join(current_segment))
    /\ current_segment' = <<sentence>>
    /\ current_word_count' = sentence_word_count
    /\ closes' = Append(closes, CloseRecord("similarity", current_word_count,
                                            seg_i + 1 - Len(current_segment), seg_i))
    /\ similarity' = Append(similarity, <<sim>>)

\* the sentence joins the current segment
SegAppend(sentence, sentence_word_count, sim) ==
    /\ ~TooLong(sentence_word_count)
    /\ ~TopicShift(sim)
    /\ current_segment' = Append(current_segment, sentence)
    /\ current_word_count' = current_word_count + sentence_word_count
    /\ similarity' = Append(similarity, <<sim>>)
    /\ UNCHANGED <<seg_segments, closes>>

\* What cosine_similarity of two adjacent embeddings can be, in percent
SimilarityChoices == {20, 50, 90}

\* one pass of for i in range(1, len(sentences)); sentences[i] is sentences[seg_i + 1]
SegStep ==
    /\ seg_pc = "loop"
    /\ seg_i < Len(sentences)
    /\ LET sentence == sentences[seg_i + 1]
           sentence_word_count == WordCount(sentence)
       IN  \E sim \in SimilarityChoices :
              \/ SegForceBreak(sentence, sentence_word_count)
              \/ SegTopicBreak(sentence, sentence_word_count, sim)
              \/ SegAppend(sentence, sentence_word_count, sim)
    /\ seg_i' = seg_i + 1
    /\ UNCHANGED <<sentences, similarity_threshold, max_segment_length,
                   min_segment_length, seg_pc>>

\* SegFinish returning without the segment still open
SegFinishWithoutLast ==
    /\ seg_pc = "loop"
    /\ seg_i >= Len(sentences)
    /\ seg_pc' = "returned"
    /\ UNCHANGED <<sentences, similarity, similarity_threshold, max_segment_length,
                   min_segment_length, seg_i, current_segment, current_word_count,
                   seg_segments, closes>>

\* after the loop: the current segment is emitted and the list returned
SegFinish ==
    /\ seg_pc = "loop"
    /\ seg_i >= Len(sentences)
    /\ IF current_segment # <<>>
       THEN /\ seg_segments' = Append(seg_segments, Join(current_segment))
            /\ closes' = Append(closes, CloseRecord("end", current_word_count,
                                                    seg_i + 1 - Len(current_segment), seg_i))
       ELSE UNCHANGED <<seg_segments, closes>>
    /\ seg_pc' = "returned"
    /\ UNCHANGED <<sentences, similarity, similarity_threshold, max_segment_length,
                   min_segment_length, seg_i, current_segment, current_word_count>>

(***************************************************************************)
(* keyword_summarize                                                       *)
(***************************************************************************)

\* The documents a keyword response can hold
KwDocFull ==
    [topic |-> JStr("ai"), summary |-> JStr("About ai."),
     key_points |-> JList(<<"k1">>), related_concepts |-> JList(<<"ml">>)]

KwKeys == {"topic", "summary", "key_points", "related_concepts"}

KwEmptyObject == [key \in KwKeys |-> JAbsent]

\* The text of a keyword response: its characters, the fence around the document
\* and the document ("invalid": no JSON).  A string of this module cannot hold a
\* backquote, so the three backquotes of a fence are written as three apostrophes.
KwText(raw, fence, t, f) == [raw |-> raw, fence |-> fence, t |-> t, f |-> f]

KwTextPool ==
    {KwText("{'topic': 'ai', 'summary': 'About ai.', 'key_points': ['k1'], 'related_concepts': ['ml']}",
            "none", "object", KwDocFull),
     KwText("'''json {'topic': 'ai', 'summary': 'About ai.', 'key_points': ['k1'], 'related_concepts': ['ml']} '''",
            "json", "object", KwDocFull),
     KwText("''' {'topic': 'ai', 'summary': 'About ai.', 'key_points': ['k1'], 'related_concepts': ['ml']} '''",
            "bare", "object", KwDocFull),
     KwText("{'topic': 'ai'}", "none", "object", [KwEmptyObject EXCEPT !["topic"] = JStr("ai")]),
     KwText("['ai']", "none", "array", KwEmptyObject),
     KwText("No relevant information found for this topic.", "none", "invalid", KwEmptyObject)}

KwOutcomes ==
    {[t |-> "raise", err |-> e, text |-> KwText("", "none", "invalid", KwEmptyObject)] :
        e \in ErrorPool}
    \cup {[t |-> "text", err |-> NoError, text |-> x] : x \in KwTextPool}
    \cup {[t |-> "nocontent", err |-> NoError,
           text |-> KwText("", "none", "invalid", KwEmptyObject)]}

\* A result of keyword_summarize: shape "error" carries error; shape "parsed" is
\* whatever json.loads gave (t and f); shape "fallback" is the dict of safe_json_parse
KwError(message) ==
    [shape |-> "error", error |-> message, t |-> "object", f |-> KwEmptyObject]

KwParsed(t, f) == [shape |-> "parsed", error |-> "", t |-> t, f |-> f]

\* the [:300] of the fallback summary
KwSummaryPrefixLen == 300

\* re.sub(r"^```json|```$", "", raw_output).strip(): only a leading ```json and a
\* trailing ``` go
KwStripFence(text) ==
    IF text.fence = "json"
    THEN [text EXCEPT !.fence = "none",
                      !.raw = SubSeq(text.raw, 9, Len(text.raw) - 4)]
    ELSE IF text.fence = "bare"
    THEN [text EXCEPT !.raw = SubSeq(text.raw, 1, Len(text.raw) - 4)]
    ELSE text

\* safe_json_parse(text)
SafeJsonParse(text) ==
    IF text.fence = "none" /\ text.t # "invalid"
    THEN KwParsed(text.t, text.f)
    ELSE [shape |-> "fallback", error |-> "", t |-> "object",
          f |-> [topic |-> JStr("Parsing Error"),
                 summary |-> JStr(Prefix(text.raw, KwSummaryPrefixLen)),
                 key_points |-> JList(<<>>),
                 related_concepts |-> JList(<<>>)]]

\* Groq(api_key=api_key) raises when it is given no key (None) and finds none itself
GroqRaises(api_key) == api_key.k = "none"

\* InitializeGroqClient without its try/except
InitializeGroqClientUncaught(api_key) == IF GroqRaises(api_key) THEN "raise" ELSE "client"

\* not text or not keyword, with and for or
MissingInputBoth(text, keyword) == text = "" /\ keyword = ""

\* not text or not keyword
MissingInput(text, keyword) == text = "" \/ keyword = ""

\* initialize_groq_client(api_key): "client", or "None" when the constructor raised
InitializeGroqClient(api_key) == IF GroqRaises(api_key) THEN "None" ELSE "client"

\* The try block of keyword_summarize for one outcome of the generation call: the
\* value returned; every Exception becomes {"error": "Groq API Error: ..."}
KwTry(outcome) ==
    IF outcome.t = "raise"
    THEN [raised |-> FALSE, result |-> KwError("Groq API Error: " \o outcome.err.msg)]
    ELSE IF outcome.t = "nocontent"
    THEN [raised |-> FALSE, result |-> KwError("Groq API Error: " \o NoContentError.msg)]
    ELSE [raised |-> FALSE, result |-> SafeJsonParse(KwStripFence(outcome.text))]

\* if not text or not keyword: return {"error": ...}
KwValidate ==
    /\ kw_pc = "called"
    /\ IF MissingInput(kw_text, kw_keyword)
       THEN /\ kw_result' = KwError("Text and keyword are required")
            /\ kw_pc' = "returned"
       ELSE /\ kw_result' = kw_result
            /\ kw_pc' = "validated"
    /\ UNCHANGED <<kw_text, kw_keyword, kw_api_key, kw_client, kw_raised,
                   clients_built, generation_calls, kw_outcome>>

\* client = initialize_groq_client(api_key); if not client: return {"error": ...}
KwInitializeClient ==
    /\ kw_pc = "validated"
    /\ clients_built' = clients_built + 1
    /\ kw_client' = InitializeGroqClient(kw_api_key)
    /\ IF kw_client' = "client"
       THEN /\ kw_pc' = "client"
            /\ UNCHANGED <<kw_result, kw_raised>>
       ELSE IF kw_client' = "None"
       THEN /\ kw_pc' = "returned"
            /\ kw_result' = KwError("Invalid Groq API configuration")
            /\ kw_raised' = kw_raised
       ELSE /\ kw_pc' = "raised"
            /\ kw_raised' = TRUE
            /\ kw_result' = kw_result
    /\ UNCHANGED <<kw_text, kw_keyword, kw_api_key, generation_calls, kw_outcome>>

\* the generation call and the rest of the try block
KwGenerate ==
    /\ kw_pc = "client"
    /\ generation_calls' = generation_calls + 1
    /\ \E outcome \in KwOutcomes :
          LET r == KwTry(outcome)
          IN  /\ kw_outcome' = outcome
              /\ kw_raised' = r.raised
              /\ kw_result' = IF r.raised THEN kw_result ELSE r.result
              /\ kw_pc' = IF r.raised THEN "raised" ELSE "returned"
    /\ UNCHANGED <<kw_text, kw_keyword, kw_api_key, kw_client, clients_built>>

(***************************************************************************)
(* Specifications                                                          *)
(***************************************************************************)

\* the most input segments of a run
MaxSegments == 2

\* the most input sentences of a segmentation
MaxSentences == 4

RECURSIVE Repeat(_, _)
\* s * k
Repeat(s, k) == IF k = 0 THEN "" ELSE s \o Repeat(s, k - 1)

\* The segments a run is given: by turns one longer than the 200 characters the
\* fallback summary keeps, and a short one
SegmentAt(p) ==
    IF p % 2 = 1 THEN Repeat("Long talk about many things. ", 7) ELSE "Short talk."

\* The delay_seconds a run is given (the default is 0.5)
DelayChoices == {1, 5}

SeqsUpTo(S, k) == UNION {[1..m -> S] : m \in 0..k}

BatchInit ==
    /\ segments \in {[p \in 1..n |-> SegmentAt(p)] : n \in 0..MaxSegments}
    /\ delay_seconds \in DelayChoices
    /\ use_pegasus \in BOOLEAN
    /\ pc = "for"
    /\ i = 0
    /\ retry_count = 0
    /\ success = FALSE
    /\ structured_segments = <<>>
    /\ final_output = NoOutput
    /\ raised = NoError
    /\ attempts = 0
    /\ tries = [p \in 1..Len(segments) |-> 0]
    /\ last = NoAttempt
    /\ dropped = {}
    /\ auth_failures = 0

BatchIdle ==
    /\ segments = <<>>
    /\ delay_seconds = 0
    /\ use_pegasus = FALSE
    /\ pc = "idle"
    /\ i = 0
    /\ retry_count = 0
    /\ success = FALSE
    /\ structured_segments = <<>>
    /\ final_output = NoOutput
    /\ raised = NoError
    /\ attempts = 0
    /\ tries = <<>>
    /\ last = NoAttempt
    /\ dropped = {}
    /\ auth_failures = 0

\* The sentences a segmentation is given: one, two and four words
SentencePool == {"Hello.", "Two words.", "Four words are here."}

SegInit ==
    /\ sentences \in SeqsUpTo(SentencePool, MaxSentences)
    /\ similarity_threshold \in {50, 95}
    /\ max_segment_length \in {3, 6}
    /\ min_segment_length \in {0, 2, 4}
    /\ similarity = <<>>
    /\ seg_pc = "called"
    /\ seg_i = 0
    /\ seg_segments = <<>>
    /\ current_segment = <<>>
    /\ current_word_count = 0
    /\ closes = <<>>

SegIdle ==
    /\ sentences = <<>>
    /\ similarity_threshold = 50
    /\ max_segment_length = 6
    /\ min_segment_length = 2
    /\ similarity = <<>>
    /\ seg_pc = "idle"
    /\ seg_i = 0
    /\ seg_segments = <<>>
    /\ current_segment = <<>>
    /\ current_word_count = 0
    /\ closes = <<>>

KwNoOutcome ==
    [t |-> "nocontent", err |-> NoError, text |-> KwText("", "none", "invalid", KwEmptyObject)]

KwInit ==
    /\ kw_text \in {"", "Notes on ai.", "Other notes."}
    /\ kw_keyword \in {"", "ai", "ml"}
    /\ kw_api_key \in {JNone, JStr("gsk_bad"), JStr("gsk_live")}
    /\ kw_pc = "called"
    /\ kw_client = "unset"
    /\ kw_result = KwError("")
    /\ kw_raised = FALSE
    /\ kw_outcome = KwNoOutcome
    /\ clients_built = 0
    /\ generation_calls = 0

KwIdle ==
    /\ kw_text = ""
    /\ kw_keyword = ""
    /\ kw_api_key = JNone
    /\ kw_pc = "idle"
    /\ kw_client = "unset"
    /\ kw_result = KwError("")
    /\ kw_raised = FALSE
    /\ kw_outcome = KwNoOutcome
    /\ clients_built = 0
    /\ generation_calls = 0

\* The topics the records of a notes file can carry: a str, null, or no topic key
NoteTopics == {JStr("Intro"), JStr("Plan"), JNone, JAbsent}

\* The notes files generate_mindmap_from_notes can be given
NotesFilePool ==
    {NotesFile(state, NoOutput) : state \in {"missing", "undecodable", "array"}}
    \cup {NotesFile("object",
                    FinalOutput([q \in 1..Len(topics) |->
                                    [StructuredData(DocA.f, "") EXCEPT
                                        !.topic = topics[q], !.segment_id = q]],
                                GenerateOverallSummary(FALSE, "", <<>>), FALSE)) :
             topics \in SeqsUpTo(NoteTopics, MaxSegments)}

ProcIdle ==
    /\ pt_pc = "idle"
    /\ output_json_path = JNone
    /\ generate_mindmap = FALSE
    /\ pt_result = NoOutput
    /\ pt_raised = NoError
    /\ notes_file = NotesFile("missing", NoOutput)
    /\ mindmap = NoMindmap

\* process_text is called: api_delay is the delay_seconds of the batch
ProcInit ==
    /\ pt_pc = "batch"
    /\ output_json_path \in {JNone, JStr("notes.json")}
    /\ generate_mindmap \in BOOLEAN
    /\ pt_result = NoOutput
    /\ pt_raised = NoError
    /\ notes_file = NotesFile("missing", NoOutput)
    /\ mindmap = NoMindmap

\* generate_mindmap_from_notes is called
MindInit ==
    /\ pt_pc = "from_notes"
    /\ output_json_path = JStr("notes.json")
    /\ generate_mindmap = TRUE
    /\ pt_result = NoOutput
    /\ pt_raised = NoError
    /\ notes_file \in NotesFilePool
    /\ mindmap = NoMindmap

Init == BatchInit /\ SegIdle /\ KwIdle /\ ProcIdle

Next ==
    \/ (ForStep /\ UNCHANGED <<seg_vars, kw_vars, proc_vars>>)
    \/ (ForExit /\ UNCHANGED <<seg_vars, kw_vars, proc_vars>>)
    \/ (Attempt /\ UNCHANGED <<seg_vars, kw_vars, proc_vars>>)
    \/ (WhileExit /\ UNCHANGED <<seg_vars, kw_vars, proc_vars>>)
    \/ (Assemble /\ UNCHANGED <<seg_vars, kw_vars, proc_vars>>)

\* process_all_segments on any input
Spec == Init /\ [][Next]_vars

\* the runs with the shorter delay and Pegasus off: neither decides what step comes
\* next
InitLive == Init /\ delay_seconds = 1 /\ ~use_pegasus

\* process_all_segments when every generation call and every time.sleep returns: a
\* step that can be taken is taken
SpecLive == InitLive /\ [][Next]_vars /\ WF_vars(Next)

InitSeg == BatchIdle /\ SegInit /\ KwIdle /\ ProcIdle

NextSeg ==
    \/ (SegBegin /\ UNCHANGED <<batch_vars, kw_vars, proc_vars>>)
    \/ (SegStep /\ UNCHANGED <<batch_vars, kw_vars, proc_vars>>)
    \/ (SegFinish /\ UNCHANGED <<batch_vars, kw_vars, proc_vars>>)

\* segment_by_topic on any input
SpecSeg == InitSeg /\ [][NextSeg]_vars

InitKw == BatchIdle /\ SegIdle /\ KwInit /\ ProcIdle

NextKw ==
    \/ (KwValidate /\ UNCHANGED <<batch_vars, seg_vars, proc_vars>>)
    \/ (KwInitializeClient /\ UNCHANGED <<batch_vars, seg_vars, proc_vars>>)
    \/ (KwGenerate /\ UNCHANGED <<batch_vars, seg_vars, proc_vars>>)

\* keyword_summarize on any input
SpecKw == InitKw /\ [][NextKw]_vars

\* the runs of process_text with the shorter api_delay and Pegasus off
InitProc == BatchInit /\ delay_seconds = 1 /\ ~use_pegasus /\ SegIdle /\ KwIdle /\ ProcInit

NextProc ==
    \/ (ForStep /\ UNCHANGED <<seg_vars, kw_vars, proc_vars>>)
    \/ (ForExit /\ UNCHANGED <<seg_vars, kw_vars, proc_vars>>)
    \/ (Attempt /\ UNCHANGED <<seg_vars, kw_vars, proc_vars>>)
    \/ (WhileExit /\ UNCHANGED <<seg_vars, kw_vars, proc_vars>>)
    \/ (Assemble /\ UNCHANGED <<seg_vars, kw_vars, proc_vars>>)
    \/ (ProcessTextFinish /\ UNCHANGED <<batch_vars, seg_vars, kw_vars>>)
    \/ (ProcessTextPropagate /\ UNCHANGED <<batch_vars, seg_vars, kw_vars>>)

\* process_text from the call of process_all_segments on; segments is what
\* segment_by_topic made of the cleaned sentences (none when there is no text)
SpecProc == InitProc /\ [][NextProc]_vars

InitMind == BatchIdle /\ SegIdle /\ KwIdle /\ MindInit

NextMind == MindmapFromNotes /\ UNCHANGED <<batch_vars, seg_vars, kw_vars>>

\* generate_mindmap_from_notes on any notes file
SpecMind == InitMind /\ [][NextMind]_vars

(***************************************************************************)
(* Properties of process_all_segments (under Spec)                         *)
(***************************************************************************)

\* the records of structured_segments that carry segment_id p
RecordsOf(p) == {q \in 1..Len(structured_segments) : structured_segments[q].segment_id = p}

ListKeys == {"key_points", "action_items", "questions", "keywords"}

\* C1: an attempt that fails with a credential error (HTTP 401, invalid API key)
\* aborts the batch at once: the error leaves process_all_segments, the attempt makes
\* no time.sleep call and counts no retry, and it is the last attempt of the run, on
\* its segment or any later one.  When every attempt made has failed that way, there
\* has been exactly one attempt, whatever the number of segments.
C1_FatalAbortsBatch ==
    /\ last.err.kind = "auth" =>
          /\ pc = "raised"
          /\ raised = last.err
          /\ last.sleeps = <<>>
          /\ attempts = last.n
          /\ i = last.segment
          /\ tries[i] = retry_count + 1
          /\ RecordsOf(i) = {}
    /\ (attempts >= 1 /\ auth_failures = attempts) => attempts = 1

\* C1: the first attempt of a run of several segments failed with a credential error
C1_Witness ==
    /\ pc = "raised"
    /\ last.err = AuthError
    /\ attempts = 1
    /\ Len(segments) >= 2

\* C2: every segment gets at most max_retries (3) attempts and none after its first
\* success; a segment whose 3 attempts all failed has no record and the loop goes on
\* to the next segment, which starts with no retry counted; a segment that succeeded
\* has exactly one record.
C2_RetryBudget ==
    /\ \A p \in 1..Len(segments) :
          /\ tries[p] <= 3
          /\ Cardinality(RecordsOf(p)) <= 1
          /\ p \in dropped => tries[p] = 3 /\ RecordsOf(p) = {}
          /\ (p < i /\ RecordsOf(p) = {}) => p \in dropped
          /\ (p < i /\ p \notin dropped) => Cardinality(RecordsOf(p)) = 1
          /\ p > i => tries[p] = 0
    /\ pc = "while" =>
          /\ tries[i] = retry_count + (IF success THEN 1 ELSE 0)
          /\ success <=> RecordsOf(i) # {}

\* C2: a segment was dropped after 3 failures and the next one succeeded on its
\* third attempt
C2_Witness ==
    /\ Len(segments) >= 2
    /\ 1 \in dropped
    /\ tries[2] = 3
    /\ Cardinality(RecordsOf(2)) = 1

\* C3: after a failed attempt that does not abort the batch, the wait before the
\* retry is the fixed 10 seconds when the failure is a rate-limit failure (HTTP 429,
\* too many requests) and delay_seconds * 2 for every other failure (timeouts,
\* generic exceptions).
C3_WaitByFailureClass ==
    (last.err.kind \in {"rate_limit", "timeout", "other"}) =>
        last.sleeps = <<IF last.err.kind = "rate_limit" THEN 10 ELSE delay_seconds * 2>>

\* C6: the segments of the returned report are strictly increasing in segment_id,
\* every segment_id is the 1-based index of the input segment the record was
\* extracted from, the ids missing from 1..n are exactly the segments that used up
\* their retries, and there are at most n records.
C6_ReportOrdered ==
    pc = "returned" =>
        LET out == final_output.segments
            n == Len(segments)
            ids == {out[p].segment_id : p \in 1..Len(out)}
        IN  /\ out = structured_segments
            /\ \A p, q \in 1..Len(out) : p < q => out[p].segment_id < out[q].segment_id
            /\ ids \subseteq 1..n
            /\ \A p \in 1..Len(out) :
                  out[p].topic = JStr("Error parsing segment") =>
                      out[p].summary =
                          JStr(Prefix(segments[out[p].segment_id], 200) \o "...")
            /\ (1..n) \ ids = dropped
            /\ \A p \in dropped : tries[p] = 3
            /\ Len(out) <= n
            /\ final_output.total_segments = Len(out)

\* C6: a report is returned whose only record is that of the second segment, the
\* first having used up its retries
C6_Witness ==
    /\ pc = "returned"
    /\ Len(segments) = 2
    /\ dropped = {1}
    /\ Len(final_output.segments) = 1
    /\ final_output.segments[1].segment_id = 2

\* whether a response text is malformed: no JSON, or JSON that is no object, or an
\* object missing one of the fields
Malformed(text) ==
    LET parsed == JsonLoads(StripFence(text))
    IN  \/ ~parsed.ok
        \/ parsed.doc.t # "object"
        \/ \E key \in NoteKeys : parsed.doc.f[key].k = "absent"

\* C7: when the generation call returns a text that is malformed, the single
\* extraction raises nothing: the attempt yields a record with a non-empty topic and
\* a non-empty summary, and lists (empty where the model gave none) for the list
\* fields.
C7_MalformedOutputDegrades ==
    (last.n > 0 /\ last.outcome.t = "text" /\ Malformed(last.outcome.text)) =>
        /\ last.err = NoError
        /\ RecordsOf(last.segment) # {}
        /\ \A q \in RecordsOf(last.segment) :
              LET rec == structured_segments[q]
                  parsed == JsonLoads(StripFence(last.outcome.text))
              IN  /\ rec.topic.k = "str" /\ rec.topic.s # ""
                  /\ rec.summary.k = "str" /\ rec.summary.s # ""
                  /\ \A key \in ListKeys :
                        /\ rec[key].k = "list"
                        /\ (~parsed.ok \/ parsed.doc.f[key].k = "absent") => rec[key].l = <<>>

\* C8: every record of structured_segments is fully populated, with strings for
\* topic and summary and lists for key_points, action_items, questions and keywords,
\* so that the aggregation over the records never fails.
C8_RecordsFullyPopulated ==
    /\ \A q \in 1..Len(structured_segments) :
          LET rec == structured_segments[q]
          IN  /\ rec.topic.k = "str"
              /\ rec.summary.k = "str"
              /\ \A key \in ListKeys : rec[key].k = "list"
              /\ rec.segment_id \in 1..Len(segments)
    /\ raised # NotIterableError

(***************************************************************************)
(* Properties of segment_by_topic (under SpecSeg)                          *)
(***************************************************************************)

\* the number of sentences of the k-th emitted segment
SentencesIn(k) == closes[k].last - closes[k].first + 1

\* C4: every emitted segment of two or more sentences has at most max_segment_length
\* words; a segment has more only when it is one sentence that alone has more.
C4_LengthBound ==
    /\ Len(closes) = Len(seg_segments)
    /\ \A k \in 1..Len(seg_segments) :
          /\ closes[k].count = WordCount(seg_segments[k])
          /\ SentencesIn(k) >= 2 => WordCount(seg_segments[k]) <= max_segment_length
          /\ WordCount(seg_segments[k]) > max_segment_length =>
                /\ SentencesIn(k) = 1
                /\ WordCount(sentences[closes[k].first]) > max_segment_length

\* C4: one emitted segment of two sentences fills max_segment_length exactly and
\* another is a single sentence longer than max_segment_length
C4_Witness ==
    /\ seg_pc = "returned"
    /\ \E k \in 1..Len(seg_segments) :
          SentencesIn(k) = 2 /\ WordCount(seg_segments[k]) = max_segment_length
    /\ \E k \in 1..Len(seg_segments) :
          SentencesIn(k) = 1 /\ WordCount(seg_segments[k]) > max_segment_length

RECURSIVE TotalWords(_)
TotalWords(l) == IF l = <<>> THEN 0 ELSE WordCount(Head(l)) + TotalWords(Tail(l))

\* every similarity computed so far is below the threshold
AllDissimilar ==
    \A p \in 1..Len(similarity) :
        similarity[p] # <<>> /\ similarity[p][1] < similarity_threshold

\* C5: a segment closed on low similarity had at least min_segment_length words when
\* it was closed, and the similarity computed then was below the threshold; sentences
\* that are all dissimilar and whose total word count is below min_segment_length and
\* within max_segment_length come back as one segment.
C5_MinLengthGuard ==
    /\ \A k \in 1..Len(closes) :
          closes[k].why = "similarity" =>
              /\ closes[k].count >= min_segment_length
              /\ WordCount(seg_segments[k]) >= min_segment_length
              /\ similarity[closes[k].last] # <<>>
              /\ similarity[closes[k].last][1] < similarity_threshold
    /\ ( /\ seg_pc = "returned"
         /\ sentences # <<>>
         /\ AllDissimilar
         /\ TotalWords(sentences) < min_segment_length
         /\ TotalWords(sentences) <= max_segment_length )
       => /\ Len(seg_segments) = 1
          /\ seg_segments[1] = Join(sentences)

\* C5: a segment was closed on low similarity once it had min_segment_length words,
\* after it had kept a dissimilar sentence while it was still shorter
C5_Witness ==
    /\ seg_pc = "returned"
    /\ min_segment_length > 0
    /\ \E k \in 1..Len(closes) :
          /\ closes[k].why = "similarity"
          /\ SentencesIn(k) >= 2
          /\ \E p \in closes[k].first..(closes[k].last - 1) :
                similarity[p] # <<>> /\ similarity[p][1] < similarity_threshold

\* three dissimilar sentences below min_segment_length came back as one segment
C5_UnsplitRun ==
    /\ seg_pc = "returned"
    /\ Len(sentences) = 3
    /\ AllDissimilar
    /\ TotalWords(sentences) < min_segment_length
    /\ TotalWords(sentences) <= max_segment_length
    /\ Len(seg_segments) = 1

(***************************************************************************)
(* Properties of keyword_summarize (under SpecKw)                          *)
(***************************************************************************)

\* C9: with an empty text or an empty keyword, keyword_summarize returns an error
\* result at once: no client is built and no generation call is made.
C9_ValidationFirst ==
    (kw_text = "" \/ kw_keyword = "") =>
        /\ clients_built = 0
        /\ generation_calls = 0
        /\ kw_client = "unset"
        /\ kw_pc \in {"called", "returned"}
        /\ kw_pc = "returned" =>
              /\ kw_result.shape = "error"
              /\ kw_result.error = "Text and keyword are required"

\* C9: a call with a text, an API key and an empty keyword has returned
C9_Witness ==
    /\ kw_pc = "returned"
    /\ kw_text # ""
    /\ kw_keyword = ""
    /\ kw_api_key = JStr("gsk_live")
    /\ kw_result.shape = "error"

\* whether the call failed: no client could be built, or the generation call raised,
\* or its response had no content
KwCallFailed == kw_client = "None" \/ (kw_client = "client" /\ kw_outcome.t # "text")

\* C10: keyword_summarize never raises; it returns a result, and when the client
\* construction or the generation call failed the result carries an error that
\* describes the failure.
C10_NeverRaises ==
    /\ kw_pc # "raised"
    /\ ~kw_raised
    /\ kw_pc = "returned" /\ KwCallFailed =>
          /\ kw_result.shape = "error"
          /\ kw_result.error # ""
          /\ kw_outcome.t = "raise" => Contains(kw_outcome.err.msg, kw_result.error)

\* C10: a call returned after its generation call raised a credential error
C10_Witness ==
    /\ kw_pc = "returned"
    /\ kw_client = "client"
    /\ kw_outcome.t = "raise"
    /\ kw_outcome.err = AuthError
    /\ kw_result.shape = "error"

\* a call returned after the client could not be built
C10_NoClient ==
    /\ kw_pc = "returned"
    /\ kw_client = "None"
    /\ generation_calls = 0

(***************************************************************************)
(* Properties of the aggregation (under Spec)                              *)
(***************************************************************************)

RECURSIVE ItemsBefore(_, _, _)
\* the number of items the records before the p-th hold under key
ItemsBefore(out, key, p) ==
    IF p <= 1 THEN 0 ELSE ItemsBefore(out, key, p - 1) + Len(out[p - 1][key].l)

\* all is the lists the records hold under key, laid end to end in record order
LaidEndToEnd(all, out, key) ==
    /\ Len(all) = ItemsBefore(out, key, Len(out) + 1)
    /\ \A p \in 1..Len(out) :
          /\ out[p][key].k = "list"
          /\ \A q \in 1..Len(out[p][key].l) :
                all[ItemsBefore(out, key, p) + q] = out[p][key].l[q]

RecordSummaries ==
    {final_output.segments[p].summary.s : p \in 1..Len(final_output.segments)} \ {""}

\* C15 as stated: when Pegasus is disabled, the overall_summary of the returned report
\* is a combination of the summary fields of its records: it holds every one of
\* them, and it is empty when they all are.
C15_SummaryFromRecords ==
    (pc = "returned" /\ ~use_pegasus) =>
        /\ \A summary \in RecordSummaries : Contains(summary, final_output.overall_summary)
        /\ RecordSummaries = {} => final_output.overall_summary = ""

\* C15, amended: when Pegasus is disabled, the overall_summary of the returned report
\* is the fixed text "Pegasus summarization not enabled" and document_keywords is
\* empty, whatever the summary fields of the records; when Pegasus is enabled,
\* overall_summary is what Pegasus returned for the joined input segments, empty
\* when it failed.
C15_SummaryPlaceholder ==
    pc = "returned" =>
        /\ final_output.pegasus_enabled = use_pegasus
        /\ ~use_pegasus =>
              /\ final_output.overall_summary = "Pegasus summarization not enabled"
              /\ final_output.document_keywords = <<>>
        /\ use_pegasus => final_output.overall_summary \in PegasusOutputs(TRUE)

\* C15: a report with a record whose summary is "First part." was returned with
\* Pegasus disabled
C15_Witness ==
    /\ pc = "returned"
    /\ ~use_pegasus
    /\ "First part." \in RecordSummaries
    /\ final_output.overall_summary = "Pegasus summarization not enabled"

(***************************************************************************)
(* Properties of the result of keyword_summarize (under SpecKw)            *)
(***************************************************************************)

\* whether json.loads fails on what keyword_summarize hands to safe_json_parse
KwUnparsable(text) == KwStripFence(text).fence # "none" \/ text.t = "invalid"

\* C16: every result of keyword_summarize either is a single error string or
\* carries all of topic, summary, key_points and related_concepts; when the response
\* is no JSON, the result has topic "Parsing Error", a summary that is a prefix of at
\* most 300 characters of the response, and empty key_points and related_concepts.
C16_ResultShapes ==
    kw_pc = "returned" =>
        /\ \/ kw_result.shape = "error"
           \/ /\ kw_result.t = "object"
              /\ \A key \in KwKeys : kw_result.f[key].k # "absent"
        /\ (kw_outcome.t = "text" /\ KwUnparsable(kw_outcome.text)) =>
              /\ kw_result.f.topic = JStr("Parsing Error")
              /\ kw_result.f.summary.k = "str"
              /\ Len(kw_result.f.summary.s) <= 300
              /\ Contains(kw_result.f.summary.s, kw_outcome.text.raw)
              /\ kw_result.f.key_points = JList(<<>>)
              /\ kw_result.f.related_concepts = JList(<<>>)

(***************************************************************************)
(* segment_by_topic partitions its input (under SpecSeg)                   *)
(***************************************************************************)

\* every similarity was computed and none is below the threshold
NeverDissimilar ==
    \A p \in 1..Len(similarity) :
        similarity[p] # <<>> /\ similarity[p][1] >= similarity_threshold

\* C17: the segments segment_by_topic returns partition the sentences: for an empty
\* input there is none; otherwise each segment is the join of a non-empty run of
\* consecutive sentences, the first run starts at the first sentence, each next run
\* starts where the one before ended, the last run ends at the last sentence, and
\* the segments joined give the sentences joined.  Sentences that are never
\* dissimilar and together within max_segment_length come back as one segment.
C17_Partition ==
    seg_pc = "returned" =>
        /\ sentences = <<>> => seg_segments = <<>>
        /\ sentences # <<>> =>
              /\ Len(seg_segments) >= 1
              /\ Len(closes) = Len(seg_segments)
              /\ closes[1].first = 1
              /\ closes[Len(closes)].last = Len(sentences)
              /\ \A k \in 1..Len(seg_segments) :
                    /\ closes[k].first <= closes[k].last
                    /\ k > 1 => closes[k].first = closes[k - 1].last + 1
                    /\ seg_segments[k] # ""
                    /\ seg_segments[k] =
                          Join(SubSeq(sentences, closes[k].first, closes[k].last))
              /\ Join(seg_segments) = Join(sentences)
        /\ ( /\ sentences # <<>>
             /\ NeverDissimilar
             /\ TotalWords(sentences) <= max_segment_length )
           => seg_segments = <<Join(sentences)>>

\* C17: four sentences came back as three segments, one closed on length and one on
\* low similarity
C17_Witness ==
    /\ seg_pc = "returned"
    /\ Len(sentences) = 4
    /\ Len(seg_segments) = 3
    /\ \E k \in 1..Len(closes) : closes[k].why = "length"
    /\ \E k \in 1..Len(closes) : closes[k].why = "similarity"
    /\ \E k \in 1..Len(closes) : SentencesIn(k) = 2

\* three sentences that are never dissimilar came back as one segment
C17_OneSegment ==
    /\ seg_pc = "returned"
    /\ Len(sentences) = 3
    /\ NeverDissimilar
    /\ Len(similarity) = 2
    /\ Len(seg_segments) = 1

(***************************************************************************)
(* Termination of process_all_segments (under SpecLive)                    *)
(***************************************************************************)

\* process_all_segments has returned its report or raised
Done == pc \in {"returned", "raised"}

\* the attempts made so far are within 3 for each segment, and no segment has been
\* attempted before the one ahead of it got its record or used up its 3 attempts
SequentialAttempts ==
    /\ attempts <= 3 * Len(segments)
    /\ \A p \in 1..Len(segments) :
          /\ tries[p] <= 3
          /\ (p > 1 /\ tries[p] > 0) => (RecordsOf(p - 1) # {} \/ tries[p - 1] = 3)

\* C18: when every generation call and every wait returns, process_all_segments
\* eventually returns its report or raises; at every moment it has made at most
\* 3 * n attempts for its n segments, and no segment is attempted before the segment
\* ahead of it has succeeded or used up its 3 attempts.
C18_Terminates == []SequentialAttempts /\ <>Done

\* C18: a run of two segments ended after 6 attempts, every one a failure
C18_Witness ==
    /\ Done
    /\ Len(segments) = 2
    /\ attempts = 6
    /\ dropped = {1, 2}

(***************************************************************************)
(* Properties of process_text (under SpecProc)                             *)
(***************************************************************************)

\* C11: process_text either returns the report or raises, and (a failure to write
\* the caller's output path set aside) it raises only for a credential error or an
\* input with no text at all; a run in which every attempt failed, none of them on
\* credentials, so that every segment used up its retries, returns the report.
C11_RaisesOnlyOnCredentials ==
    /\ pt_pc = "raised" =>
          (pt_raised.kind = "auth" \/ segments = <<>> \/ pt_raised = WriteError)
    /\ ( /\ pt_pc \in {"returned", "raised"}
         /\ auth_failures = 0
         /\ structured_segments = <<>> )
       => (pt_pc = "returned" \/ pt_raised = WriteError)

\* a run whose two segments used up their retries on failures that are no
\* credential errors returned a report without records
C11_AllDroppedReturns ==
    /\ pt_pc = "returned"
    /\ Len(segments) = 2
    /\ dropped = {1, 2}
    /\ pt_result.segments = <<>>

\* C12: the mindmap step is best effort: once the report is written, no failure of
\* the step (the generation call fails, the notes file is missing or no JSON, a
\* record has no topic or a topic that is no str, the artifact cannot be written)
\* makes process_text raise; the step returns "" instead, and process_text returns
\* the report it would return with generate_mindmap false.
C12_MindmapBestEffort ==
    /\ notes_file.state = "object" => pt_pc # "raised"
    /\ pt_pc = "returned" => pt_result = final_output
    /\ (mindmap.calls > 0 /\ (mindmap.outcome.t # "text" \/ ~mindmap.file.written)) =>
          mindmap.returned = <<"">>

\* a run with generate_mindmap true returned its report after the generation call
\* of the mindmap raised
C12_GenerationFailureSwallowed ==
    /\ pt_pc = "returned"
    /\ generate_mindmap
    /\ mindmap.calls = 1
    /\ mindmap.outcome.t = "raise"
    /\ mindmap.returned = <<"">>
    /\ pt_result = final_output
    /\ Len(pt_result.segments) = 2

\* C19: a credential error aborts all or nothing: it leaves process_all_segments
\* and process_text, no report is returned, no notes file is written, no mindmap
\* step runs, and the records of the segments before the failing one reach nobody.
C19_FatalAbortAllOrNothing ==
    last.err.kind = "auth" =>
        /\ pc = "raised"
        /\ raised = last.err
        /\ final_output = NoOutput
        /\ pt_pc \in {"batch", "raised"}
        /\ pt_pc = "raised" => pt_raised = last.err
        /\ pt_result = NoOutput
        /\ notes_file.state = "missing"
        /\ mindmap = NoMindmap

\* C19: process_text, asked for a notes file and a mindmap, raised the credential
\* error of the second segment after the first had its record
C19_Witness ==
    /\ pt_pc = "raised"
    /\ pt_raised = AuthError
    /\ last.segment = 2
    /\ Len(structured_segments) = 1
    /\ output_json_path # JNone
    /\ generate_mindmap

(***************************************************************************)
(* Properties of generate_mindmap_from_notes (under SpecMind)              *)
(***************************************************************************)

\* a notes file that is missing or no JSON, a record without topic, a failing
\* generation call and an artifact that cannot be written all give ""
MindmapFailureGivesEmpty ==
    (pt_pc = "returned" /\ (mindmap.calls = 0 \/ ~mindmap.file.written)) =>
        mindmap.returned = <<"">>

\* a record without topic is named by its segment_id in the concept
MindmapDefaultTopic ==
    /\ pt_pc = "returned"
    /\ mindmap.concept = "Session notes covering: Segment 1 | Plan"

\* a record whose topic is null made generate_mindmap_from_notes raise
MindmapNullTopicRaised ==
    /\ pt_pc = "raised"
    /\ pt_raised = JoinTypeError
    /\ mindmap.calls = 0

====
